---- MODULE Spec2Model ----
(***************************************************************************)
(* Model of the KnowledgeGraph engine (lib/ai/KnowledgeGraph.ts).          *)
(*                                                                         *)
(* Encoding of numbers:                                                    *)
(*   - node weight and metadata.confidence are kept in tenths (1.0 = 10);  *)
(*     the adjustment of reinforceKnowledge, 0.1, is 1.  Floating-point    *)
(*     rounding of the repeated sums is not modelled.                      *)
(*   - a cosine similarity is kept exactly, as the record                  *)
(*     [dot |-> a.b, den2 |-> |a|^2 * |b|^2], standing for                 *)
(*     dot / sqrt(den2); den2 = 0 stands for NaN (0/0).                    *)
(*   - a ratio (averageConnectivity, growthRate, confidenceScore) is the   *)
(*     record [num, den], not normalised.                                  *)
(* A Map is the sequence of its values in insertion order; keys are the    *)
(* values' id fields.                                                      *)
(***************************************************************************)
EXTENDS Integers, Sequences, FiniteSets, TLC

VARIABLES
  nodes,             \* this.nodes: Map<string, KnowledgeNode>
  edges,             \* this.edges: Map<string, KnowledgeEdge>
  embedder,          \* this.embedder: "null" or "loaded"
  learningHistory,   \* this.learningHistory, when it is an array
  historyMalformed,  \* TRUE when this.learningHistory holds a non-array value
  slot,              \* localStorage['ai-knowledge-graph']
  calls,             \* addKnowledge invocations, each with its position
  initPc,            \* position of initialize(): idle, loading, done, failed
  lastOp,            \* the operation step taken last, with its outcome
  recorded,          \* history variable: every snapshot updateMetrics pushed
  reinforcements,    \* number of reinforceKnowledge calls that found their node
  find,              \* findSimilarNodes invocations awaiting their embedding
  returned           \* what the step just taken returned, when it is a query

vars == <<nodes, edges, embedder, learningHistory, historyMalformed, slot,
          calls, initPc, lastOp, recorded, reinforcements, find, returned>>

(***************************************************************************)
(* Bounds of the model.                                                    *)
(***************************************************************************)
MaxCalls == 2
MaxReinforce == 1
MaxCallsLink == 3
MaxReinforceLink == 1
MaxCallsReinforce == 1
MaxReinforceDeep == 11
MaxCallsHistory == 102
MaxCallsStartup == 1
MaxReinforceStartup == 1
MaxCallsInsights == 2
MaxReinforceInsights == 1
MaxFinds == 1
MaxCallsTop == 11
MaxReinforceTop == 2
MaxCallsGaps == 12
MaxMinority == 2
MaxCallsDomain == 1
MaxCallsVisual == 2
MaxCallsZero == 2

(***************************************************************************)
(* Program constants.                                                      *)
(***************************************************************************)
InitialWeight == 10
DefaultConfidence == 8
MinWeight == 1
MaxWeight == 20
MinConfidence == 1
MaxConfidence == 10
HistoryCap == 100
TopLimit == 10
PatternLimit == 3
FindLimit == 10
NoConfidence == -1
NoEmbedding == <<>>
NoDomain == "<undefined>"

(***************************************************************************)
(* Sequence helpers.                                                       *)
(***************************************************************************)
Last(s) == s[Len(s)]

Range(s) == {s[i] : i \in 1..Len(s)}

Max2(a, b) == IF a >= b THEN a ELSE b

Min2(a, b) == IF a <= b THEN a ELSE b

NodeIds(ns) == {ns[i].id : i \in 1..Len(ns)}

IndexOfNode(ns, id) == CHOOSE i \in 1..Len(ns) : ns[i].id = id

HasNode(ns, id) == id \in NodeIds(ns)

(***************************************************************************)
(* Embedding vectors.  The embedder is an opaque text -> vector function;  *)
(* the model fixes a small table of vectors.  VecA.VecB = 0.7 exactly,     *)
(* VecA.VecC = 0.8, VecB.VecC = 0.86, VecA.VecD ~ 0.7071, VecE is           *)
(* orthogonal to VecA.                                                     *)
(***************************************************************************)
VecA == <<10, 0, 0, 0>>
VecB == <<7, 1, 5, 5>>
VecC == <<8, 0, 6, 0>>
VecD == <<5, 4, 3, 0>>
VecE == <<0, 10, 0, 0>>
VecZero == <<0, 0, 0, 0>>

RECURSIVE DotFrom(_, _, _)
DotFrom(a, b, i) ==
  IF i > Len(a) THEN 0 ELSE a[i] * b[i] + DotFrom(a, b, i + 1)

cosineSimilarity(a, b) ==
  [dot |-> DotFrom(a, b, 1), den2 |-> DotFrom(a, a, 1) * DotFrom(b, b, 1)]

\* similarity > 0.7 of createConnections; NaN > 0.7 is false
AboveThresholdGE(similarity) ==
  /\ similarity.den2 > 0
  /\ similarity.dot > 0
  /\ 100 * similarity.dot * similarity.dot >= 49 * similarity.den2

AboveThreshold(similarity) ==
  /\ similarity.den2 > 0
  /\ similarity.dot > 0
  /\ 100 * similarity.dot * similarity.dot > 49 * similarity.den2

(***************************************************************************)
(* Contents: a text is known by the vector the embedder gives it and by    *)
(* the domains whose keyword list has a match in it.                       *)
(***************************************************************************)
DomainOrder == <<"ai", "science", "technology", "business">>

ContentAI == [text |-> "ai", vec |-> VecA, hits |-> {"ai", "science"}]
ContentDoc == [text |-> "doc", vec |-> VecB, hits |-> {}]
ContentTech == [text |-> "tech", vec |-> VecC, hits |-> {"technology", "business"}]
ContentNear == [text |-> "near", vec |-> VecD, hits |-> {"science"}]
ContentZero == [text |-> "zero", vec |-> VecZero, hits |-> {}]

RECURSIVE inferDomainFrom(_, _)
inferDomainFrom(content, k) ==
  IF k > Len(DomainOrder) THEN "general"
  ELSE IF DomainOrder[k] \in content.hits THEN DomainOrder[k]
  ELSE inferDomainFrom(content, k + 1)

inferDomain(content) == inferDomainFrom(content, 1)

(***************************************************************************)
(* The keyword match of inferDomain.  A text is the sequence of its        *)
(* characters.                                                             *)
(***************************************************************************)
UpperCase ==
  <<"A", "B", "C", "D", "E", "F", "G", "H", "I", "J", "K", "L", "M", "N",
    "O", "P", "Q", "R", "S", "T", "U", "V", "W", "X", "Y", "Z">>

LowerCase ==
  <<"a", "b", "c", "d", "e", "f", "g", "h", "i", "j", "k", "l", "m", "n",
    "o", "p", "q", "r", "s", "t", "u", "v", "w", "x", "y", "z">>

\* one character of content.toLowerCase()
toLowerCase(ch) ==
  IF \E i \in 1..Len(UpperCase) : UpperCase[i] = ch
  THEN LowerCase[CHOOSE i \in 1..Len(UpperCase) : UpperCase[i] = ch]
  ELSE ch

\* the keyword lists of the table `domains`, 'general' having none
Keywords(domain) ==
  IF domain = "ai" THEN
    { <<"a", "r", "t", "i", "f", "i", "c", "i", "a", "l", " ", "i", "n", "t", "e", "l", "l", "i", "g", "e", "n", "c", "e">>,
      <<"m", "a", "c", "h", "i", "n", "e", " ", "l", "e", "a", "r", "n", "i", "n", "g">>,
      <<"n", "e", "u", "r", "a", "l", " ", "n", "e", "t", "w", "o", "r", "k">>,
      <<"d", "e", "e", "p", " ", "l", "e", "a", "r", "n", "i", "n", "g">> }
  ELSE IF domain = "science" THEN
    { <<"r", "e", "s", "e", "a", "r", "c", "h">>,
      <<"s", "t", "u", "d", "y">>,
      <<"e", "x", "p", "e", "r", "i", "m", "e", "n", "t">>,
      <<"t", "h", "e", "o", "r", "y">>,
      <<"h", "y", "p", "o", "t", "h", "e", "s", "i", "s">> }
  ELSE IF domain = "technology" THEN
    { <<"s", "o", "f", "t", "w", "a", "r", "e">>,
      <<"h", "a", "r", "d", "w", "a", "r", "e">>,
      <<"c", "o", "m", "p", "u", "t", "e", "r">>,
      <<"d", "i", "g", "i", "t", "a", "l">>,
      <<"t", "e", "c", "h">> }
  ELSE IF domain = "business" THEN
    { <<"m", "a", "r", "k", "e", "t">>,
      <<"c", "o", "m", "p", "a", "n", "y">>,
      <<"e", "c", "o", "n", "o", "m", "y">>,
      <<"f", "i", "n", "a", "n", "c", "e">>,
      <<"b", "u", "s", "i", "n", "e", "s", "s">> }
  ELSE {}

\* lowerContent.includes(keyword)
Includes(lowerContent, keyword) ==
  \E start \in 0..(Len(lowerContent) - Len(keyword)) :
    \A i \in 1..Len(keyword) : lowerContent[start + i] = keyword[i]

\* the domains of the table for which keywords.some(...) is true
KeywordHits(chars) ==
  LET lowerContent == [i \in 1..Len(chars) |-> toLowerCase(chars[i])]
  IN {domain \in Range(DomainOrder) :
        \E keyword \in Keywords(domain) : Includes(lowerContent, keyword)}

\* metadata argument of addKnowledge: which keys it carries, and their values
NoMetadata ==
  [hasConfidence |-> FALSE, confidence |-> NoConfidence,
   hasDomain |-> FALSE, domain |-> NoDomain]

Metadata(c, d) ==
  [hasConfidence |-> TRUE, confidence |-> c, hasDomain |-> TRUE, domain |-> d]

\* the calls the model makes: (content, type, metadata)
InputAI == [content |-> ContentAI, type |-> "concept", metadata |-> NoMetadata]

InputDoc ==
  [content |-> ContentDoc, type |-> "document", metadata |-> Metadata(9, "document")]

InputTech ==
  [content |-> ContentTech, type |-> "entity", metadata |-> Metadata(0, "research")]

InputNear ==
  [content |-> ContentNear, type |-> "concept",
   metadata |-> Metadata(NoConfidence, NoDomain)]

InputZero == [content |-> ContentZero, type |-> "concept", metadata |-> NoMetadata]

CoreInputs == {InputAI, InputDoc, InputTech}

AddInputs == CoreInputs \cup {InputNear}

\* the vectors the fallback of generateEmbedding can draw
RandVecs == {VecC, VecE}

(***************************************************************************)
(* addKnowledge: the node it builds.                                       *)
(***************************************************************************)
\* the merge with the defaults written after the caller's keys
MergeMetadataDefaultsWin(content, metadata) ==
  [confidence |-> DefaultConfidence, domain |-> inferDomain(content)]

\* { confidence: 0.8, domain: this.inferDomain(content), ...metadata }
MergeMetadata(content, metadata) ==
  [confidence |-> IF metadata.hasConfidence THEN metadata.confidence
                  ELSE DefaultConfidence,
   domain |-> IF metadata.hasDomain THEN metadata.domain
              ELSE inferDomain(content)]

\* placed: the object carries the fields a force layout adds to the nodes it
\* is given (index, x, y, vx, vy); a new node has none
NewNode(nodeId, input, embedding) ==
  [id |-> nodeId,
   type |-> input.type,
   content |-> input.content.text,
   embedding |-> embedding,
   connections |-> <<>>,
   weight |-> InitialWeight,
   confidence |-> MergeMetadata(input.content, input.metadata).confidence,
   domain |-> MergeMetadata(input.content, input.metadata).domain,
   placed |-> FALSE]

\* the value generateEmbedding returns: the embedder's vector, or the
\* fallback's random vector when the embedder call throws
generateEmbedding(content, outcome) ==
  IF outcome.failed THEN outcome.vec ELSE content.vec

EmbedOutcomes ==
  {[failed |-> FALSE, vec |-> NoEmbedding]}
    \cup {[failed |-> TRUE, vec |-> v] : v \in RandVecs}

(***************************************************************************)
(* createConnections.                                                      *)
(***************************************************************************)
inferRelationship(nodeA, nodeB) ==
  IF nodeA.type = nodeB.type THEN "similar_to"
  ELSE IF nodeA.type = "document" /\ nodeB.type = "concept" THEN "contains"
  ELSE IF nodeA.type = "concept" /\ nodeB.type = "entity" THEN "relates_to"
  ELSE "connected_to"

HasEmbedding(node) == node.embedding # NoEmbedding

\* the loop's "continue" test, without the self test
SkipExistingNoSelf(existingId, existingNode, nodeId) ==
  ~HasEmbedding(existingNode)

\* if (existingId === nodeId || !existingNode.embedding) continue;
SkipExisting(existingId, existingNode, nodeId) ==
  existingId = nodeId \/ ~HasEmbedding(existingNode)

\* the two pushes, with the second one lost
PushConnectionsOneSided(ns, newIdx, k, nodeId, existingId) ==
  [ns EXCEPT ![newIdx].connections = Append(@, existingId)]

\* newNode.connections.push(existingId); existingNode.connections.push(nodeId)
PushConnections(ns, newIdx, k, nodeId, existingId) ==
  LET ns1 == [ns EXCEPT ![newIdx].connections = Append(@, existingId)]
  IN [ns1 EXCEPT ![k].connections = Append(@, nodeId)]

\* byReference: source and target hold the node objects themselves, as a
\* force layout leaves them, the ids in the record being those of the objects;
\* a new edge holds ids
NewEdge(newNode, existingNode, similarity) ==
  [id |-> <<newNode.id, existingNode.id>>,
   source |-> newNode.id,
   target |-> existingNode.id,
   relationship |-> inferRelationship(newNode, existingNode),
   weight |-> similarity,
   byReference |-> FALSE]

\* one pass of the loop body, on the k-th entry of the map
ConnectStep(graph, nodeId, k) ==
  LET ns == graph.nodes
      newIdx == IndexOfNode(ns, nodeId)
      newNode == ns[newIdx]
      existingNode == ns[k]
      similarity == cosineSimilarity(newNode.embedding, existingNode.embedding)
  IN
    IF SkipExisting(existingNode.id, existingNode, nodeId) THEN graph
    ELSE IF AboveThreshold(similarity)
      THEN [nodes |-> PushConnections(ns, newIdx, k, nodeId, existingNode.id),
            edges |-> Append(graph.edges, NewEdge(newNode, existingNode, similarity))]
    ELSE graph

\* the passes lo..hi of the loop, in order.  The range is split in halves
\* and the first half is evaluated before the second starts, which keeps
\* the evaluation shallow; the loop never changes the number of entries.
RECURSIVE ConnectRange(_, _, _, _)
ConnectRange(graph, nodeId, lo, hi) ==
  IF lo > hi THEN graph
  ELSE IF lo = hi THEN ConnectStep(graph, nodeId, lo)
  ELSE LET mid == (lo + hi) \div 2
           firstHalf == ConnectRange(graph, nodeId, lo, mid)
       IN IF Len(firstHalf.nodes) = Len(graph.nodes)
          THEN ConnectRange(firstHalf, nodeId, mid + 1, hi)
          ELSE firstHalf

createConnections(ns, es, nodeId) ==
  IF ~HasNode(ns, nodeId) \/ ~HasEmbedding(ns[IndexOfNode(ns, nodeId)])
  THEN [nodes |-> ns, edges |-> es]
  ELSE ConnectRange([nodes |-> ns, edges |-> es], nodeId, 1, Len(ns))

(***************************************************************************)
(* calculateMetrics and updateMetrics.                                     *)
(***************************************************************************)
\* Array.from(new Set(s)): the values of s, each at its first place
Distinct(s) ==
  LET firsts == {i \in 1..Len(s) : \A j \in 1..(i - 1) : s[j] # s[i]}
      place(k) == CHOOSE i \in firsts : Cardinality({j \in firsts : j < i}) = k - 1
  IN [k \in 1..Cardinality(firsts) |-> s[place(k)]]

\* node.metadata.domain || 'unknown'
DomainOrUnknown(node) == IF node.domain = NoDomain THEN "unknown" ELSE node.domain

\* node.metadata.confidence || 0.5, in tenths
ConfidenceOrHalf(node) ==
  IF node.confidence = NoConfidence \/ node.confidence = 0 THEN 5
  ELSE node.confidence

\* the reduce over nodes lo..hi (split in halves to keep the evaluation
\* shallow)
RECURSIVE SumConfidence(_, _, _)
SumConfidence(ns, lo, hi) ==
  IF lo > hi THEN 0
  ELSE IF lo = hi THEN ConfidenceOrHalf(ns[lo])
  ELSE LET mid == (lo + hi) \div 2
       IN SumConfidence(ns, lo, mid) + SumConfidence(ns, mid + 1, hi)

\* the mean degree, twice the code's ratio
averageConnectivityDegree(totalNodes, totalEdges) ==
  IF totalNodes > 0 THEN [num |-> 2 * totalEdges, den |-> totalNodes]
  ELSE [num |-> 0, den |-> 1]

\* totalNodes > 0 ? totalEdges / totalNodes : 0
averageConnectivity(totalNodes, totalEdges) ==
  IF totalNodes > 0 THEN [num |-> totalEdges, den |-> totalNodes]
  ELSE [num |-> 0, den |-> 1]

\* the growth taken over the current size instead of the previous one
growthRateOverCurrent(totalNodes, history, malformed) ==
  IF ~malformed /\ Len(history) > 0
  THEN [num |-> totalNodes - Last(history).totalNodes, den |-> Max2(1, totalNodes)]
  ELSE [num |-> 0, den |-> 1]

\* previousMetrics ? (totalNodes - previous.totalNodes)
\*                     / Math.max(1, previous.totalNodes) : 0
\* (a learningHistory that is no array has no last element)
growthRate(totalNodes, history, malformed) ==
  IF ~malformed /\ Len(history) > 0
  THEN [num |-> totalNodes - Last(history).totalNodes,
        den |-> Max2(1, Last(history).totalNodes)]
  ELSE [num |-> 0, den |-> 1]

calculateMetrics(ns, es, history, malformed) ==
  LET totalNodes == Len(ns)
      totalEdges == Len(es)
  IN [totalNodes |-> totalNodes,
      totalEdges |-> totalEdges,
      averageConnectivity |-> averageConnectivity(totalNodes, totalEdges),
      knowledgeDomains |->
        Distinct([i \in 1..Len(ns) |-> DomainOrUnknown(ns[i])]),
      growthRate |-> growthRate(totalNodes, history, malformed),
      confidenceScore |->
        [num |-> SumConfidence(ns, 1, Len(ns)), den |-> 10 * Max2(1, totalNodes)]]

\* the history kept whole, with no eviction
TrimHistoryNone(history) == history

\* if (length > 100) this.learningHistory = this.learningHistory.slice(-100)
TrimHistory(history) ==
  IF Len(history) > HistoryCap
  THEN SubSeq(history, Len(history) - HistoryCap + 1, Len(history))
  ELSE history

updateMetrics(ns, es, history) ==
  TrimHistory(Append(history, calculateMetrics(ns, es, history, FALSE)))

(***************************************************************************)
(* Persistence.  The slot is absent, unparsable text, or the JSON text of  *)
(* an object whose three fields are each absent, a list, or a value that   *)
(* is no list ("bad").  JSON.stringify writes the finite numbers, the       *)
(* strings and the arrays the model stores as they are, and leaves out     *)
(* every key whose value is undefined; a key left out reads back as        *)
(* undefined.                                                              *)
(***************************************************************************)
NodeKeys ==
  {"id", "type", "content", "embedding", "connections", "weight", "confidence",
   "domain", "placed"}

\* the value the model keeps for a key that is undefined
Undefined(key) ==
  IF key = "confidence" THEN NoConfidence
  ELSE IF key = "domain" THEN NoDomain
  ELSE NoEmbedding

IsUndefined(node, key) ==
  key \in {"confidence", "domain", "embedding"} /\ node[key] = Undefined(key)

\* JSON.stringify of a node: the keys that have a value
stringifyNode(node) ==
  [key \in {k \in NodeKeys : ~IsUndefined(node, k)} |-> node[key]]

\* the node read back with the defaults of addKnowledge for a missing key
parseNodeDefaulting(json) ==
  [key \in NodeKeys |->
     IF key \in DOMAIN json THEN json[key]
     ELSE IF key = "confidence" THEN DefaultConfidence
     ELSE IF key = "domain" THEN "general"
     ELSE Undefined(key)]

\* the node JSON.parse gives back, read as the engine reads it
parseNode(json) ==
  [key \in NodeKeys |-> IF key \in DOMAIN json THEN json[key] ELSE Undefined(key)]

AbsentField == [kind |-> "absent", val |-> <<>>]

BadField == [kind |-> "bad", val |-> <<>>]

ListField(s) == [kind |-> "list", val |-> s]

NoSlot ==
  [kind |-> "absent", nodes |-> AbsentField, edges |-> AbsentField,
   learningHistory |-> AbsentField]

GarbageSlot ==
  [kind |-> "garbage", nodes |-> AbsentField, edges |-> AbsentField,
   learningHistory |-> AbsentField]

JsonSlot(nodesField, edgesField, historyField) ==
  [kind |-> "json", nodes |-> nodesField, edges |-> edgesField,
   learningHistory |-> historyField]

\* JSON.stringify({nodes: [...entries], edges: [...entries], learningHistory})
Serialize(ns, es, history, malformed) ==
  JsonSlot(ListField([i \in 1..Len(ns) |-> stringifyNode(ns[i])]), ListField(es),
           IF malformed THEN BadField ELSE ListField(history))

\* saveToStorage with the try/catch removed: a failing setItem propagates
saveToStorageUncaught(fails, data, stored) ==
  IF fails THEN [slot |-> stored, raised |-> TRUE]
  ELSE [slot |-> data, raised |-> FALSE]

\* saveToStorage: a failing setItem is caught and logged
saveToStorage(fails, data, stored) ==
  IF fails THEN [slot |-> stored, raised |-> FALSE]
  ELSE [slot |-> data, raised |-> FALSE]

\* data.x || []
FieldOrEmpty(field) == IF field.kind = "list" THEN field.val ELSE <<>>

\* new Map(data.nodes || [])
LoadedNodes(field) ==
  [i \in 1..Len(FieldOrEmpty(field)) |-> parseNode(FieldOrEmpty(field)[i])]

\* loadFromStorage: the assignments made before the first throw stay
loadFromStorage(stored, ns, es, history, malformed) ==
  LET unchanged == [nodes |-> ns, edges |-> es, learningHistory |-> history,
                    historyMalformed |-> malformed]
  IN
    IF stored.kind = "absent" THEN unchanged
    ELSE IF stored.kind = "garbage" THEN unchanged
    ELSE IF stored.nodes.kind = "bad" THEN unchanged
    ELSE IF stored.edges.kind = "bad"
      THEN [unchanged EXCEPT !.nodes = LoadedNodes(stored.nodes)]
    ELSE [nodes |-> LoadedNodes(stored.nodes),
          edges |-> FieldOrEmpty(stored.edges),
          learningHistory |-> FieldOrEmpty(stored.learningHistory),
          historyMalformed |-> stored.learningHistory.kind = "bad"]

(***************************************************************************)
(* reinforceKnowledge.                                                     *)
(***************************************************************************)
Adjustment(feedback) == IF feedback = "positive" THEN 1 ELSE -1

\* the clamp with its upper limit lost
clampWeightNoUpper(w) == Max2(MinWeight, w)

\* Math.max(0.1, Math.min(2.0, w))
clampWeight(w) == Max2(MinWeight, Min2(MaxWeight, w))

\* Math.max(0.1, Math.min(1.0, c))
clampConfidence(c) == Max2(MinConfidence, Min2(MaxConfidence, c))

\* if (node.metadata.confidence): undefined and 0 are both falsy
ConfidenceTruthy(node) == node.confidence # NoConfidence /\ node.confidence # 0

reinforceNode(node, feedback) ==
  [node EXCEPT
     !.weight = clampWeight(@ + Adjustment(feedback)),
     !.confidence = IF ConfidenceTruthy(node)
                    THEN clampConfidence(@ + Adjustment(feedback))
                    ELSE @]

\* reinforceKnowledge with the absent-node return placed after the save
reinforceKnowledgeSavesFirst(ns, es, history, malformed, stored, nodeId, feedback, saveFails) ==
  LET ns2 == IF HasNode(ns, nodeId)
             THEN [ns EXCEPT ![IndexOfNode(ns, nodeId)] = reinforceNode(@, feedback)]
             ELSE ns
      saved == saveToStorage(saveFails, Serialize(ns2, es, history, malformed), stored)
  IN [nodes |-> ns2, slot |-> saved.slot, found |-> HasNode(ns, nodeId),
      raised |-> saved.raised]

\* reinforceKnowledge forgetting the node it is given negative feedback on
reinforceKnowledgeForgets(ns, es, history, malformed, stored, nodeId, feedback, saveFails) ==
  IF ~HasNode(ns, nodeId)
  THEN [nodes |-> ns, slot |-> stored, found |-> FALSE, raised |-> FALSE]
  ELSE
    LET ns2 == IF feedback = "negative"
               THEN SelectSeq(ns, LAMBDA node : node.id # nodeId)
               ELSE [ns EXCEPT ![IndexOfNode(ns, nodeId)] = reinforceNode(@, feedback)]
        saved == saveToStorage(saveFails, Serialize(ns2, es, history, malformed), stored)
    IN [nodes |-> ns2, slot |-> saved.slot, found |-> TRUE, raised |-> saved.raised]

\* reinforceKnowledge passing the feedback on to the nodes connected to its
\* node
reinforceKnowledgeSpreading(ns, es, history, malformed, stored, nodeId, feedback, saveFails) ==
  IF ~HasNode(ns, nodeId)
  THEN [nodes |-> ns, slot |-> stored, found |-> FALSE, raised |-> FALSE]
  ELSE
    LET near == Range(ns[IndexOfNode(ns, nodeId)].connections) \cup {nodeId}
        ns2 == [i \in 1..Len(ns) |->
                  IF ns[i].id \in near THEN reinforceNode(ns[i], feedback) ELSE ns[i]]
        saved == saveToStorage(saveFails, Serialize(ns2, es, history, malformed), stored)
    IN [nodes |-> ns2, slot |-> saved.slot, found |-> TRUE, raised |-> saved.raised]

reinforceKnowledge(ns, es, history, malformed, stored, nodeId, feedback, saveFails) ==
  IF ~HasNode(ns, nodeId)
  THEN [nodes |-> ns, slot |-> stored, found |-> FALSE, raised |-> FALSE]
  ELSE
    LET ns2 == [ns EXCEPT ![IndexOfNode(ns, nodeId)] = reinforceNode(@, feedback)]
        saved == saveToStorage(saveFails, Serialize(ns2, es, history, malformed), stored)
    IN [nodes |-> ns2, slot |-> saved.slot, found |-> TRUE, raised |-> saved.raised]

(***************************************************************************)
(* getInsights, getGraphData, findSimilarNodes.                            *)
(***************************************************************************)
\* the indexes of keys from the greatest key to the least, the indexes of
\* one key in increasing order; remaining: the keys not placed yet
RECURSIVE IndexesDescending(_, _)
IndexesDescending(keys, remaining) ==
  IF remaining = {} THEN <<>>
  ELSE LET top == CHOOSE x \in remaining : \A y \in remaining : y <= x
       IN SelectSeq([i \in 1..Len(keys) |-> i], LAMBDA i : keys[i] = top)
            \o IndexesDescending(keys, remaining \ {top})

\* s.sort((a, b) => key(b) - key(a)): a stable sort, greatest key first;
\* keys[i] is the key of s[i]
SortDescending(s, keys) ==
  LET order == IndexesDescending(keys, Range(keys))
  IN [k \in 1..Len(s) |-> s[order[k]]]

\* s.slice(0, n)
Slice(s, n) == SubSeq(s, 1, Min2(n, Len(s)))

\* the nodes by weight, least first
sortByWeightAscending(ns) ==
  LET sorted == SortDescending(ns, [i \in 1..Len(ns) |-> ns[i].weight])
  IN [k \in 1..Len(ns) |-> sorted[Len(ns) + 1 - k]]

\* Array.from(this.nodes.values()).sort((a, b) => b.weight - a.weight)
sortByWeight(ns) == SortDescending(ns, [i \in 1..Len(ns) |-> ns[i].weight])

\* .slice(0, 10) of the sorted nodes
topConcepts(ns) == Slice(sortByWeight(ns), TopLimit)

\* the keys of detectPatterns: source domain and target domain of each edge
\* whose two nodes are stored, in the order of the edges (this.nodes.get of
\* a source or target that is no id finds nothing)
DomainOrUndefined(node) == IF node.domain = NoDomain THEN "undefined" ELSE node.domain

PatternKeys(ns, es) ==
  LET known == SelectSeq(es, LAMBDA e : /\ ~e.byReference
                                        /\ HasNode(ns, e.source)
                                        /\ HasNode(ns, e.target))
  IN [k \in 1..Len(known) |->
        <<DomainOrUndefined(ns[IndexOfNode(ns, known[k].source)]),
          DomainOrUndefined(ns[IndexOfNode(ns, known[k].target)])>>]

\* the three most frequent keys, each a "Strong connection between" message
detectPatterns(ns, es) ==
  LET keys == PatternKeys(ns, es)
      distinct == Distinct(keys)
      count(key) == Cardinality({k \in 1..Len(keys) : keys[k] = key})
  IN Slice(SortDescending(distinct, [i \in 1..Len(distinct) |-> count(distinct[i])]),
           PatternLimit)

\* the node has at most one connection
IsIsolatedOrLeaf(node) == Len(node.connections) <= 1

\* node.connections.length === 0
IsIsolated(node) == Len(node.connections) = 0

\* Array.from(this.nodes.values()).filter(node => node.connections.length === 0)
isolatedNodes(ns) == SelectSeq(ns, IsIsolated)

\* count < minThreshold with minThreshold = Math.max(1, size * 0.1), on
\* integers: the products by 0.1 up to size 400 compare as the exact values
BelowThresholdOrEqual(count, size) == count <= 1 \/ 10 * count <= size

BelowThreshold(count, size) == count < 1 \/ (size > 10 /\ 10 * count < size)

\* the domains counted below the threshold, in the order of their first node
underrepresented(ns) ==
  LET domainOf == [i \in 1..Len(ns) |-> DomainOrUnknown(ns[i])]
      count(domain) == Cardinality({i \in 1..Len(ns) : domainOf[i] = domain})
  IN SelectSeq(Distinct(domainOf), LAMBDA domain : BelowThreshold(count(domain), Len(ns)))

IsolatedGap(n) == [kind |-> "isolated", count |-> n, domains |-> <<>>]

DomainGap(domains) == [kind |-> "underrepresented", count |-> 0, domains |-> domains]

identifyGaps(ns, es) ==
  LET isolated == isolatedNodes(ns)
      under == underrepresented(ns)
  IN (IF Len(isolated) > 0 THEN <<IsolatedGap(Len(isolated))>> ELSE <<>>)
       \o (IF Len(under) > 0 THEN <<DomainGap(under)>> ELSE <<>>)

getInsights(ns, es, history, malformed) ==
  [topConcepts |-> topConcepts(ns),
   emergingPatterns |-> detectPatterns(ns, es),
   knowledgeGaps |-> identifyGaps(ns, es),
   metrics |-> calculateMetrics(ns, es, history, malformed)]

getGraphData(ns, es) == [nodes |-> ns, edges |-> es]

\* 0 / 0
IsNaN(similarity) == similarity.den2 = 0

\* similarity x greater than similarity y, on the exact values (neither NaN)
SimilarityGreater(x, y) ==
  IF x.dot >= 0 /\ y.dot >= 0 THEN x.dot * x.dot * y.den2 > y.dot * y.dot * x.den2
  ELSE IF x.dot < 0 /\ y.dot < 0 THEN x.dot * x.dot * y.den2 < y.dot * y.dot * x.den2
  ELSE x.dot >= 0

\* the nodes that have an embedding, most similar to the query first, equal
\* similarities in insertion order, the first `limit` of them
findSimilarNodes(ns, queryEmbedding, limit) ==
  LET embedded == SelectSeq(ns, HasEmbedding)
      sim == [i \in 1..Len(embedded) |->
                cosineSimilarity(queryEmbedding, embedded[i].embedding)]
      rank == [i \in 1..Len(embedded) |->
                 Cardinality({j \in 1..Len(embedded) : SimilarityGreater(sim[j], sim[i])})
                   + Cardinality({j \in 1..(i - 1) :
                                    ~SimilarityGreater(sim[j], sim[i])
                                      /\ ~SimilarityGreater(sim[i], sim[j])}) + 1]
  IN Slice([k \in 1..Len(embedded) |->
              embedded[CHOOSE i \in 1..Len(embedded) : rank[i] = k]], limit)

\* the orders of n elements
Orders(n) ==
  {p \in [1..n -> 1..n] : \A i, j \in 1..n : p[i] = p[j] => i = j}

\* what findSimilarNodes can return.  With a similarity that is NaN the
\* comparator b.similarity - a.similarity returns NaN for some pairs, which
\* sort takes as 0; it is then no consistent comparison and the order sort
\* leaves is implementation-defined: any order of the elements.
SimilarOutcomes(ns, queryEmbedding, limit) ==
  LET embedded == SelectSeq(ns, HasEmbedding)
      nan == {i \in 1..Len(embedded) :
                IsNaN(cosineSimilarity(queryEmbedding, embedded[i].embedding))}
  IN IF nan = {} THEN {findSimilarNodes(ns, queryEmbedding, limit)}
     ELSE {Slice([k \in 1..Len(embedded) |-> embedded[p[k]]], limit) :
             p \in Orders(Len(embedded))}

(***************************************************************************)
(* State.                                                                  *)
(***************************************************************************)
Op(op, id, found, saveFailed, raised) ==
  [op |-> op, id |-> id, found |-> found, saveFailed |-> saveFailed,
   raised |-> raised]

\* a query returns to its caller; any other step returns no query value
NoReturn == [op |-> "none", value |-> <<>>]

\* a step of a mutating operation: no query is touched
NoQuery == returned' = NoReturn /\ UNCHANGED find

InFlight(c) == calls[c].pc \in {"embedding", "linked"}

Completed(c) == calls[c].pc = "returned"

\* a fresh engine: the fields' initialisers, nothing stored, nothing called
Constructed ==
  /\ nodes = <<>>
  /\ edges = <<>>
  /\ learningHistory = <<>>
  /\ historyMalformed = FALSE
  /\ calls = <<>>
  /\ recorded = <<>>
  /\ reinforcements = 0
  /\ lastOp = Op("none", 0, FALSE, FALSE, FALSE)
  /\ find = <<>>
  /\ returned = NoReturn

\* the engine after initialize() has completed over an empty storage slot
Init ==
  /\ Constructed
  /\ embedder = "loaded"
  /\ initPc = "done"
  /\ slot = NoSlot

(***************************************************************************)
(* addKnowledge, one action per run between two awaits.                    *)
(***************************************************************************)
\* lines 62-64: the id is drawn and the embedder is called; the call
\* suspends at "await this.generateEmbedding(content)"
AddCall(input, limit, sequential) ==
  /\ Len(calls) < limit
  /\ sequential => \A c \in 1..Len(calls) : ~InFlight(c)
  /\ calls' = Append(calls,
       [input |-> input, nodeId |-> Len(calls) + 1, pc |-> "embedding",
        embedderNull |-> (embedder = "null"), embedFailed |-> FALSE,
        saveFailed |-> FALSE, result |-> 0])
  /\ lastOp' = Op("addKnowledge:call", Len(calls) + 1, FALSE, FALSE, FALSE)
  /\ NoQuery
  /\ UNCHANGED <<nodes, edges, embedder, learningHistory, historyMalformed,
                 slot, initPc, recorded, reinforcements>>

\* lines 64-85: the embedding arrives (or the fallback's vector), the node
\* is built and stored, createConnections runs to its end; the call
\* suspends at "await this.createConnections(nodeId)"
AddInsertLink(c, outcome) ==
  /\ calls[c].pc = "embedding"
  /\ calls[c].embedderNull => outcome.failed
  /\ LET call == calls[c]
         embedding == generateEmbedding(call.input.content, outcome)
         node == NewNode(call.nodeId, call.input, embedding)
         linked == createConnections(Append(nodes, node), edges, call.nodeId)
     IN /\ nodes' = linked.nodes
        /\ edges' = linked.edges
        /\ calls' = [calls EXCEPT ![c].pc = "linked",
                                  ![c].embedFailed = outcome.failed]
        /\ lastOp' = Op("addKnowledge:insert", call.nodeId, TRUE, FALSE, FALSE)
  /\ NoQuery
  /\ UNCHANGED <<embedder, learningHistory, historyMalformed, slot, initPc,
                 recorded, reinforcements>>

\* lines 88-91 in the other order: the state is saved, then the snapshot is
\* pushed
saveThenRecord(ns, es, history, stored, saveFails) ==
  LET saved == saveToStorage(saveFails, Serialize(ns, es, history, FALSE), stored)
  IN [learningHistory |-> updateMetrics(ns, es, history),
      slot |-> saved.slot, raised |-> saved.raised]

\* lines 88-91: this.updateMetrics(); this.saveToStorage()
recordThenSave(ns, es, history, stored, saveFails) ==
  LET pushed == updateMetrics(ns, es, history)
      saved == saveToStorage(saveFails, Serialize(ns, es, pushed, FALSE), stored)
  IN [learningHistory |-> pushed, slot |-> saved.slot, raised |-> saved.raised]

\* lines 87-94: updateMetrics, saveToStorage, return nodeId.  push on a
\* learningHistory that is no array throws out of addKnowledge.
AddRecordSave(c, saveFails) ==
  /\ calls[c].pc = "linked"
  /\ IF historyMalformed
     THEN /\ calls' = [calls EXCEPT ![c].pc = "raised"]
          /\ lastOp' = Op("addKnowledge:record", calls[c].nodeId, TRUE, FALSE, TRUE)
          /\ UNCHANGED <<learningHistory, slot, recorded>>
     ELSE
       LET saved == recordThenSave(nodes, edges, learningHistory, slot, saveFails)
       IN /\ learningHistory' = saved.learningHistory
          /\ recorded' = Append(recorded,
                                calculateMetrics(nodes, edges, learningHistory, FALSE))
          /\ slot' = saved.slot
          /\ calls' = [calls EXCEPT
                         ![c].pc = IF saved.raised THEN "raised" ELSE "returned",
                         ![c].saveFailed = saveFails,
                         ![c].result = IF saved.raised THEN 0 ELSE calls[c].nodeId]
          /\ lastOp' = Op("addKnowledge:record", calls[c].nodeId, TRUE,
                          saveFails, saved.raised)
  /\ NoQuery
  /\ UNCHANGED <<nodes, edges, embedder, historyMalformed, initPc,
                 reinforcements>>

(***************************************************************************)
(* reinforceKnowledge: no await inside, so one action.  limit bounds the   *)
(* number of calls that find their node.                                   *)
(***************************************************************************)
Reinforce(nodeId, feedback, saveFails, limit) ==
  /\ HasNode(nodes, nodeId) => reinforcements < limit
  /\ ~HasNode(nodes, nodeId) => ~saveFails
  /\ LET r == reinforceKnowledge(nodes, edges, learningHistory, historyMalformed,
                                 slot, nodeId, feedback, saveFails)
     IN /\ nodes' = r.nodes
        /\ slot' = r.slot
        /\ reinforcements' = IF r.found THEN reinforcements + 1 ELSE reinforcements
        /\ lastOp' = Op("reinforceKnowledge:" \o feedback, nodeId, r.found,
                        saveFails, r.raised)
  /\ NoQuery
  /\ UNCHANGED <<edges, embedder, learningHistory, historyMalformed, calls,
                 initPc, recorded>>

\* the ids reinforceKnowledge is called with: the stored ones and one that
\* no call was given
ReinforceIds == NodeIds(nodes) \cup {Len(calls) + 1}

(***************************************************************************)
(* initialize.                                                             *)
(***************************************************************************)
\* lines 41-45: suspends at the import and the pipeline awaits
InitializeCall ==
  /\ initPc = "idle"
  /\ initPc' = "loading"
  /\ lastOp' = Op("initialize:call", 0, FALSE, FALSE, FALSE)
  /\ NoQuery
  /\ UNCHANGED <<nodes, edges, embedder, learningHistory, historyMalformed,
                 slot, calls, recorded, reinforcements>>

\* lines 46-55: the pipeline resolves, then loadFromStorage
InitializeLoad ==
  /\ initPc = "loading"
  /\ LET loaded == loadFromStorage(slot, nodes, edges, learningHistory,
                                   historyMalformed)
     IN /\ nodes' = loaded.nodes
        /\ edges' = loaded.edges
        /\ learningHistory' = loaded.learningHistory
        /\ historyMalformed' = loaded.historyMalformed
  /\ embedder' = "loaded"
  /\ initPc' = "done"
  /\ lastOp' = Op("initialize:load", 0, slot.kind # "absent", FALSE, FALSE)
  /\ NoQuery
  /\ UNCHANGED <<slot, calls, recorded, reinforcements>>

\* lines 56-59: the import or the pipeline rejects; initialize rethrows
InitializeThrow ==
  /\ initPc = "loading"
  /\ initPc' = "failed"
  /\ lastOp' = Op("initialize:throw", 0, FALSE, FALSE, TRUE)
  /\ NoQuery
  /\ UNCHANGED <<nodes, edges, embedder, learningHistory, historyMalformed,
                 slot, calls, recorded, reinforcements>>

(***************************************************************************)
(* The queries.  getInsights and getGraphData have no await inside;        *)
(* findSimilarNodes suspends once, at the embedding of its query.          *)
(***************************************************************************)
Unmutated ==
  UNCHANGED <<nodes, edges, embedder, learningHistory, historyMalformed, slot,
              calls, initPc, recorded, reinforcements>>

\* getInsights taking its metrics from updateMetrics: a snapshot is pushed
HistoryAfterInsightsPushed(ns, es, history, malformed) ==
  IF malformed THEN history ELSE updateMetrics(ns, es, history)

\* line 141: the metrics come from calculateMetrics, which pushes nothing
HistoryAfterInsights(ns, es, history, malformed) == history

GetInsights ==
  /\ returned' = [op |-> "getInsights",
                  value |-> getInsights(nodes, edges, learningHistory,
                                        historyMalformed)]
  /\ learningHistory' = HistoryAfterInsights(nodes, edges, learningHistory,
                                             historyMalformed)
  /\ lastOp' = Op("getInsights", 0, FALSE, FALSE, FALSE)
  /\ UNCHANGED find
  /\ UNCHANGED <<nodes, edges, embedder, historyMalformed, slot, calls, initPc,
                 recorded, reinforcements>>

GetGraphData ==
  /\ returned' = [op |-> "getGraphData", value |-> getGraphData(nodes, edges)]
  /\ lastOp' = Op("getGraphData", 0, FALSE, FALSE, FALSE)
  /\ UNCHANGED find
  /\ Unmutated

\* KnowledgeGraphVisualization, lines 27-31: d3.forceSimulation(nodes) adds
\* its fields to every node object it is given, d3.forceLink(edges).id(...)
\* replaces source and target of every edge object it is given by the node
\* objects.  The arrays are those of getGraphData, their elements the
\* objects of the store.
forceSimulation(ns, es, data) ==
  LET given == NodeIds(data.nodes)
      links == {data.edges[k].id : k \in 1..Len(data.edges)}
  IN [nodes |-> [i \in 1..Len(ns) |->
                   IF ns[i].id \in given THEN [ns[i] EXCEPT !.placed = TRUE]
                   ELSE ns[i]],
      edges |-> [k \in 1..Len(es) |->
                   IF es[k].id \in links THEN [es[k] EXCEPT !.byReference = TRUE]
                   ELSE es[k]]]

\* the effect of the visualization on the data updateInsights has just
\* taken from getGraphData (Index.tsx lines 37-39, 108); line 18: nothing
\* is drawn when there is no node
Visualize ==
  /\ returned.op = "getGraphData"
  /\ Len(returned.value.nodes) > 0
  /\ LET drawn == forceSimulation(nodes, edges, returned.value)
     IN /\ nodes' = drawn.nodes
        /\ edges' = drawn.edges
  /\ lastOp' = Op("visualize", 0, FALSE, FALSE, FALSE)
  /\ NoQuery
  /\ UNCHANGED <<embedder, learningHistory, historyMalformed, slot, calls,
                 initPc, recorded, reinforcements>>

\* line 98: suspends at "await this.generateEmbedding(query)"
FindCall(query, limit) ==
  /\ Len(find) < limit
  /\ find' = Append(find, query)
  /\ returned' = NoReturn
  /\ lastOp' = Op("findSimilarNodes:call", 0, FALSE, FALSE, FALSE)
  /\ Unmutated

\* lines 98-111: the embedding arrives, the nodes are ranked and returned
FindReturn(q, outcome) ==
  /\ q \in 1..Len(find)
  /\ embedder = "null" => outcome.failed
  /\ find' = [k \in 1..(Len(find) - 1) |-> IF k < q THEN find[k] ELSE find[k + 1]]
  /\ \E result \in SimilarOutcomes(nodes, generateEmbedding(find[q], outcome),
                                     FindLimit) :
       returned' = [op |-> "findSimilarNodes", value |-> result]
  /\ lastOp' = Op("findSimilarNodes:return", 0, FALSE, FALSE, outcome.failed)
  /\ Unmutated

(***************************************************************************)
(* Specifications.                                                         *)
(***************************************************************************)
Feedbacks == {"positive", "negative"}

NoFailure == {FALSE}

EmbedSucceeds == {outcome \in EmbedOutcomes : ~outcome.failed}

\* the initialized engine under concurrent addKnowledge calls and
\* reinforceKnowledge calls, embedder and storage failing at will
Next ==
  \/ \E input \in CoreInputs : AddCall(input, MaxCalls, FALSE)
  \/ \E c \in 1..Len(calls), outcome \in EmbedOutcomes : AddInsertLink(c, outcome)
  \/ \E c \in 1..Len(calls), saveFails \in BOOLEAN : AddRecordSave(c, saveFails)
  \/ \E nodeId \in ReinforceIds, feedback \in Feedbacks, saveFails \in BOOLEAN :
       Reinforce(nodeId, feedback, saveFails, MaxReinforce)

Spec == Init /\ [][Next]_vars

\* the same engine with embedder and storage working, for more calls
NextLink ==
  \/ \E input \in CoreInputs : AddCall(input, MaxCallsLink, FALSE)
  \/ \E c \in 1..Len(calls), outcome \in EmbedSucceeds : AddInsertLink(c, outcome)
  \/ \E c \in 1..Len(calls), saveFails \in NoFailure : AddRecordSave(c, saveFails)
  \/ \E nodeId \in ReinforceIds, feedback \in Feedbacks, saveFails \in NoFailure :
       Reinforce(nodeId, feedback, saveFails, MaxReinforceLink)

SpecLink == Init /\ [][NextLink]_vars

\* few nodes, reinforced until the clamps are met
NextReinforce ==
  \/ \E input \in AddInputs : AddCall(input, MaxCallsReinforce, FALSE)
  \/ \E c \in 1..Len(calls), outcome \in EmbedSucceeds : AddInsertLink(c, outcome)
  \/ \E c \in 1..Len(calls), saveFails \in NoFailure : AddRecordSave(c, saveFails)
  \/ \E nodeId \in ReinforceIds, feedback \in Feedbacks, saveFails \in NoFailure :
       Reinforce(nodeId, feedback, saveFails, MaxReinforceDeep)

SpecReinforce == Init /\ [][NextReinforce]_vars

\* the initialized engine under concurrent calls of all its operations,
\* embedder and storage working
Queries == {ContentAI, ContentDoc}

NextInsights ==
  \/ \E input \in AddInputs : AddCall(input, MaxCallsInsights, FALSE)
  \/ \E c \in 1..Len(calls), outcome \in EmbedSucceeds : AddInsertLink(c, outcome)
  \/ \E c \in 1..Len(calls), saveFails \in NoFailure : AddRecordSave(c, saveFails)
  \/ \E nodeId \in ReinforceIds, feedback \in Feedbacks, saveFails \in NoFailure :
       Reinforce(nodeId, feedback, saveFails, MaxReinforceInsights)
  \/ GetInsights
  \/ GetGraphData
  \/ \E query \in Queries : FindCall(query, MaxFinds)
  \/ \E q \in 1..Len(find), outcome \in EmbedSucceeds : FindReturn(q, outcome)

SpecInsights == Init /\ [][NextInsights]_vars

\* a long session of one caller: documents are inserted one after another,
\* each call awaited before the next, past the cap of the metrics history.
\* The session goes round a list of texts whose embeddings are pairwise at
\* similarity 0.5 or less, so that only repeats of one text are linked.
SessionTexts ==
  <<"s0", "s1", "s2", "s3", "s4", "s5", "s6", "s7", "s8", "s9", "s10", "s11",
    "s12", "s13", "s14", "s15", "s16", "s17", "s18", "s19", "s20", "s21",
    "s22", "s23">>

AxisPairs == <<<<1, 2>>, <<1, 3>>, <<1, 4>>, <<2, 3>>, <<2, 4>>, <<3, 4>>>>

\* the embedding of the i-th text: two axes of the six pairs, with signs
SessionVec(i) ==
  LET pair == AxisPairs[(i % 6) + 1]
      first == IF (i \div 6) % 2 = 0 THEN 10 ELSE -10
      second == IF (i \div 12) % 2 = 0 THEN 10 ELSE -10
  IN [d \in 1..4 |-> IF d = pair[1] THEN first
                     ELSE IF d = pair[2] THEN second ELSE 0]

\* the input of the session's call number k + 1
SessionInput(k) ==
  LET i == k % Len(SessionTexts)
  IN [content |-> [text |-> SessionTexts[i + 1], vec |-> SessionVec(i), hits |-> {}],
      type |-> "document",
      metadata |-> Metadata(9, "document")]

NextHistory ==
  \/ AddCall(SessionInput(Len(calls)), MaxCallsHistory, TRUE)
  \/ \E c \in 1..Len(calls), outcome \in EmbedSucceeds : AddInsertLink(c, outcome)
  \/ \E c \in 1..Len(calls), saveFails \in NoFailure : AddRecordSave(c, saveFails)
  \/ GetInsights

SpecHistory == Init /\ [][NextHistory]_vars

\* a research session of one caller, who awaits each call before the next:
\* the results of one query, on one topic, are inserted, stored nodes are
\* reinforced, and the insights are read
InputResearch ==
  [content |-> ContentAI, type |-> "concept", metadata |-> Metadata(7, "research")]

NextTop ==
  \/ AddCall(InputResearch, MaxCallsTop, TRUE)
  \/ \E c \in 1..Len(calls), outcome \in EmbedSucceeds : AddInsertLink(c, outcome)
  \/ \E c \in 1..Len(calls), saveFails \in NoFailure : AddRecordSave(c, saveFails)
  \/ /\ \A c \in 1..Len(calls) : ~InFlight(c)
     /\ \E nodeId \in NodeIds(nodes), feedback \in Feedbacks, saveFails \in NoFailure :
          Reinforce(nodeId, feedback, saveFails, MaxReinforceTop)
  \/ /\ \A c \in 1..Len(calls) : ~InFlight(c)
     /\ GetInsights

SpecTop == Init /\ [][NextTop]_vars

\* a session of one caller in which a few documents and notes, each on a
\* topic of its own, come among the research results; the note is stored
\* with its domain undefined
MinorityCalls == {c \in 1..Len(calls) : calls[c].input # InputResearch}

DocumentInput(m) == SessionInput(3 + m)

NoteInput(m) ==
  [content |-> SessionInput(3 + m).content, type |-> "concept",
   metadata |-> Metadata(NoConfidence, NoDomain)]

NextGaps ==
  \/ AddCall(InputResearch, MaxCallsGaps, TRUE)
  \/ /\ Cardinality(MinorityCalls) < MaxMinority
     /\ \E input \in {DocumentInput(Cardinality(MinorityCalls)),
                      NoteInput(Cardinality(MinorityCalls))} :
          AddCall(input, MaxCallsGaps, TRUE)
  \/ \E c \in 1..Len(calls), outcome \in EmbedSucceeds : AddInsertLink(c, outcome)
  \/ \E c \in 1..Len(calls), saveFails \in NoFailure : AddRecordSave(c, saveFails)
  \/ /\ \A c \in 1..Len(calls) : ~InFlight(c)
     /\ GetInsights

SpecGaps == Init /\ [][NextGaps]_vars

\* one call on a text put together from two fragments, with or without the
\* overrides of confidence and domain: the texts match the keywords of no
\* domain, of one, or of several, in either case of the letters, and a
\* keyword may lie across the two fragments
Fragments ==
  { <<>>,
    <<"D", "e", "e", "p", " ", "L", "e", "a", "r", "n", "i", "n", "g", " ">>,
    <<"S", "T", "U", "D", "Y", " ">>,
    <<"T", "e", "c", "h">>,
    <<"m", "a", "r">>,
    <<"k", "e", "t", " ">>,
    <<"c", "a", "t", "s", " ">> }

DomainTexts == {f \o g : f, g \in Fragments}

DomainContent(chars) == [text |-> chars, vec |-> VecA, hits |-> KeywordHits(chars)]

MetadataVariants ==
  { NoMetadata,
    [NoMetadata EXCEPT !.hasConfidence = TRUE, !.confidence = 3],
    [NoMetadata EXCEPT !.hasDomain = TRUE, !.domain = "research"],
    Metadata(3, "research") }

DomainInputs ==
  {[content |-> DomainContent(chars), type |-> "concept", metadata |-> metadata] :
     chars \in DomainTexts, metadata \in MetadataVariants}

NextDomain ==
  \/ \E input \in DomainInputs : AddCall(input, MaxCallsDomain, TRUE)
  \/ \E c \in 1..Len(calls), outcome \in EmbedSucceeds : AddInsertLink(c, outcome)
  \/ \E c \in 1..Len(calls), saveFails \in NoFailure : AddRecordSave(c, saveFails)

SpecDomain == Init /\ [][NextDomain]_vars

\* the page: documents and research results are added, nodes reinforced,
\* and after every change the insights and the graph data are read and the
\* graph is drawn
NextVisual ==
  \/ \E input \in CoreInputs : AddCall(input, MaxCallsVisual, FALSE)
  \/ \E c \in 1..Len(calls), outcome \in EmbedSucceeds : AddInsertLink(c, outcome)
  \/ \E c \in 1..Len(calls), saveFails \in NoFailure : AddRecordSave(c, saveFails)
  \/ \E nodeId \in NodeIds(nodes), feedback \in {"positive"}, saveFails \in NoFailure :
       Reinforce(nodeId, feedback, saveFails, MaxReinforceInsights)
  \/ GetInsights
  \/ GetGraphData
  \/ Visualize

SpecVisual == Init /\ [][NextVisual]_vars

\* texts and queries among which one is given the zero vector by the
\* embedder
ZeroInputs == {InputAI, InputTech, InputZero}

ZeroQueries == {ContentAI, ContentZero}

NextZero ==
  \/ \E input \in ZeroInputs : AddCall(input, MaxCallsZero, FALSE)
  \/ \E c \in 1..Len(calls), outcome \in EmbedSucceeds : AddInsertLink(c, outcome)
  \/ \E c \in 1..Len(calls), saveFails \in NoFailure : AddRecordSave(c, saveFails)
  \/ \E query \in ZeroQueries : FindCall(query, MaxFinds)
  \/ \E q \in 1..Len(find), outcome \in EmbedSucceeds : FindReturn(q, outcome)

SpecZero == Init /\ [][NextZero]_vars

(***************************************************************************)
(* Startup.  The slot holds what an earlier session left: nothing, the     *)
(* snapshot of a two-node graph, or text that does not decode.             *)
(***************************************************************************)
PrevFirst == NewNode(101, InputAI, VecA)

PrevGraph ==
  createConnections(<<PrevFirst, NewNode(102, InputTech, VecC)>>, <<>>, 102)

PrevHistory ==
  updateMetrics(PrevGraph.nodes, PrevGraph.edges,
                updateMetrics(<<PrevFirst>>, <<>>, <<>>))

PrevSlot == Serialize(PrevGraph.nodes, PrevGraph.edges, PrevHistory, FALSE)

StartupSlots ==
  { NoSlot,
    GarbageSlot,
    PrevSlot,
    JsonSlot(AbsentField, AbsentField, AbsentField),
    JsonSlot(BadField, PrevSlot.edges, PrevSlot.learningHistory),
    JsonSlot(PrevSlot.nodes, BadField, PrevSlot.learningHistory),
    JsonSlot(PrevSlot.nodes, PrevSlot.edges, BadField) }

\* the engine as constructed, before initialize() is called
InitStartup ==
  /\ Constructed
  /\ embedder = "null"
  /\ initPc = "idle"
  /\ slot \in StartupSlots

StartupInputs == {InputAI, InputDoc}

NextStartup ==
  \/ InitializeCall
  \/ InitializeLoad
  \/ InitializeThrow
  \/ \E input \in StartupInputs : AddCall(input, MaxCallsStartup, FALSE)
  \/ \E c \in 1..Len(calls), outcome \in EmbedOutcomes : AddInsertLink(c, outcome)
  \/ \E c \in 1..Len(calls), saveFails \in NoFailure : AddRecordSave(c, saveFails)
  \/ \E nodeId \in ReinforceIds, feedback \in Feedbacks, saveFails \in NoFailure :
       Reinforce(nodeId, feedback, saveFails, MaxReinforceStartup)

SpecStartup == InitStartup /\ [][NextStartup]_vars

\* the engine as constructed in a session that follows one which saved
InitRestart ==
  /\ Constructed
  /\ embedder = "null"
  /\ initPc = "idle"
  /\ slot = PrevSlot

SpecRestart == InitRestart /\ [][NextStartup]_vars

(***************************************************************************)
(* Properties.                                                             *)
(***************************************************************************)
EdgesBetween(a, b) ==
  {k \in 1..Len(edges) : {edges[k].source, edges[k].target} = {a, b}}

NodeOf(id) == nodes[IndexOfNode(nodes, id)]

NoDuplicates(s) == \A i, j \in 1..Len(s) : s[i] = s[j] => i = j

\* C1: connection symmetry.  For every two stored nodes a and b, an edge
\* with endpoints {a, b} exists iff b is in a.connections iff a is in
\* b.connections, whatever the interleaving of the addKnowledge calls and
\* the reinforceKnowledge calls.
C1_ConnectionSymmetry ==
  \A i, j \in 1..Len(nodes) :
    LET a == nodes[i]
        b == nodes[j]
    IN /\ (EdgesBetween(a.id, b.id) # {}) <=> (b.id \in Range(a.connections))
       /\ (b.id \in Range(a.connections)) <=> (a.id \in Range(b.connections))

\* C1 witness: three nodes, some linked and some not, one reinforced
C1_Witness ==
  /\ Len(nodes) = 3
  /\ reinforcements > 0
  /\ \E i, j \in 1..3 : i # j /\ nodes[j].id \in Range(nodes[i].connections)
  /\ \E i, j \in 1..3 : i # j /\ nodes[j].id \notin Range(nodes[i].connections)

\* similarity > 0.7, on the exact value
Over07(w) == w.den2 > 0 /\ w.dot > 0 /\ 100 * w.dot * w.dot > 49 * w.den2

\* C2: threshold linking.  Two stored nodes that both have an embedding are
\* joined by an edge iff their cosine similarity is strictly greater than
\* 0.7; every edge's weight is the similarity of its endpoints' embeddings,
\* and so is greater than 0.7.
C2_ThresholdLinking ==
  /\ \A i, j \in 1..Len(nodes) :
       (i # j /\ HasEmbedding(nodes[i]) /\ HasEmbedding(nodes[j])) =>
         ((EdgesBetween(nodes[i].id, nodes[j].id) # {})
            <=> Over07(cosineSimilarity(nodes[i].embedding, nodes[j].embedding)))
  /\ \A k \in 1..Len(edges) :
       /\ HasNode(nodes, edges[k].source) /\ HasNode(nodes, edges[k].target)
       /\ edges[k].weight = cosineSimilarity(NodeOf(edges[k].source).embedding,
                                             NodeOf(edges[k].target).embedding)
       /\ Over07(edges[k].weight)

\* C2 witness: a pair at exactly 0.7 left unlinked beside a linked pair
C2_Witness ==
  /\ \E i, j \in 1..Len(nodes) :
       /\ nodes[i].embedding = VecA
       /\ nodes[j].embedding = VecB
       /\ EdgesBetween(nodes[i].id, nodes[j].id) = {}
  /\ edges # <<>>

\* C8: the edge collection is a simple graph.  No edge joins a node to
\* itself, no two edges join the same unordered pair, and no connections
\* list holds its own node or an id twice.
C8_SimpleGraph ==
  /\ \A k \in 1..Len(edges) : edges[k].source # edges[k].target
  /\ \A k, l \in 1..Len(edges) :
       {edges[k].source, edges[k].target} = {edges[l].source, edges[l].target}
         => k = l
  /\ \A i \in 1..Len(nodes) :
       /\ nodes[i].id \notin Range(nodes[i].connections)
       /\ NoDuplicates(nodes[i].connections)

\* C8 witness: three nodes, each linked to both others, two of them stored
\* by calls that were in flight together
C8_Witness ==
  /\ Len(nodes) = 3
  /\ Len(edges) = 3
  /\ \E c, d \in 1..Len(calls) :
       c < d /\ IndexOfNode(nodes, calls[d].nodeId) < IndexOfNode(nodes, calls[c].nodeId)

ReinforceOps == {"reinforceKnowledge:positive", "reinforceKnowledge:negative"}

FeedbackOf(op) == IF op = "reinforceKnowledge:positive" THEN "positive" ELSE "negative"

NodeAfter(id) == nodes'[IndexOfNode(nodes', id)]

\* C3: weight bound.  A node is created with weight 1.0; after every step
\* every weight lies in [0.1, 2.0]; a reinforceKnowledge call that finds
\* its node sets the weight to weight + 0.1 (positive) or weight - 0.1
\* (negative), clamped to [0.1, 2.0].
C3_WeightBound ==
  [][/\ \A i \in 1..Len(nodes') :
          /\ nodes'[i].weight >= 1 /\ nodes'[i].weight <= 20
          /\ ~HasNode(nodes, nodes'[i].id) => nodes'[i].weight = 10
     /\ (lastOp'.op \in ReinforceOps /\ lastOp'.found) =>
          LET w == NodeOf(lastOp'.id).weight
                     + (IF lastOp'.op = "reinforceKnowledge:positive" THEN 1 ELSE -1)
          IN NodeAfter(lastOp'.id).weight
               = (IF w > 20 THEN 20 ELSE IF w < 1 THEN 1 ELSE w)]_vars

\* C3 witness: a positive reinforcement met a node already at 2.0
C3_Witness ==
  /\ lastOp.op = "reinforceKnowledge:positive"
  /\ lastOp.found
  /\ NodeOf(lastOp.id).weight = MaxWeight
  /\ reinforcements > MaxWeight - InitialWeight

\* C4: confidence reinforcement.  When reinforceKnowledge finds its node and
\* the node's metadata.confidence is present (any value in [0, 1], 0
\* included), the confidence becomes confidence + 0.1 (positive) or
\* confidence - 0.1 (negative) clamped, and so lies in [0.1, 1.0].
C4_ConfidenceReinforced ==
  [][(lastOp'.op \in ReinforceOps /\ lastOp'.found
        /\ NodeOf(lastOp'.id).confidence # NoConfidence) =>
       LET c == NodeOf(lastOp'.id).confidence
                  + (IF lastOp'.op = "reinforceKnowledge:positive" THEN 1 ELSE -1)
       IN /\ NodeAfter(lastOp'.id).confidence
               = (IF c > 10 THEN 10 ELSE IF c < 1 THEN 1 ELSE c)
          /\ NodeAfter(lastOp'.id).confidence >= 1
          /\ NodeAfter(lastOp'.id).confidence <= 10]_vars

CompletedCalls == {c \in 1..Len(calls) : Completed(c)}

\* C5: bounded FIFO metrics history.  After k completed addKnowledge calls
\* from the empty state the history holds min(k, 100) entries, which are the
\* last min(k, 100) snapshots recorded, in recording order; it never holds
\* more than 100.
C5_HistoryBound ==
  LET k == Cardinality(CompletedCalls)
      n == IF k < 100 THEN k ELSE 100
  IN /\ Len(recorded) = k
     /\ Len(learningHistory) = n
     /\ Len(learningHistory) <= 100
     /\ learningHistory = SubSeq(recorded, k - n + 1, k)

\* C5 witness: two snapshots evicted, the oldest one kept is the third
C5_Witness ==
  /\ Len(recorded) = HistoryCap + 2
  /\ Len(learningHistory) = HistoryCap
  /\ learningHistory[1].totalNodes = 3

\* C6: reinforceKnowledge with an id that is not in the store returns
\* normally and leaves nodes, edges, metrics history and the persisted
\* snapshot unchanged.
C6_ReinforceAbsentNoOp ==
  [][(lastOp'.op \in ReinforceOps /\ ~lastOp'.found) =>
       /\ ~lastOp'.raised
       /\ UNCHANGED <<nodes, edges, learningHistory, historyMalformed, slot>>]_vars

\* C6 witness: the call came while the store was ahead of the slot, so a
\* save would have shown
C6_Witness ==
  /\ lastOp.op \in ReinforceOps
  /\ ~lastOp.found
  /\ nodes # <<>>
  /\ slot # Serialize(nodes, edges, learningHistory, historyMalformed)

\* C7: embedding failure degradation.  A node whose embedding call failed is
\* stored with its embedding absent, and is never an endpoint of an edge.
C7_FailedEmbeddingAbsent ==
  \A c \in 1..Len(calls) :
    (calls[c].embedFailed /\ calls[c].pc \in {"linked", "returned"}) =>
      /\ HasNode(nodes, calls[c].nodeId)
      /\ ~HasEmbedding(NodeOf(calls[c].nodeId))
      /\ \A k \in 1..Len(edges) :
           edges[k].source # calls[c].nodeId /\ edges[k].target # calls[c].nodeId

\* C9: a failing save is not fatal.  The addKnowledge call returns the new
\* node's id, with the node, its edges and the new snapshot kept in memory;
\* the reinforceKnowledge call returns with the adjusted node kept; the slot
\* keeps what it held.
C9_SaveFailureNonFatal ==
  [][lastOp'.saveFailed =>
       /\ ~lastOp'.raised
       /\ slot' = slot
       /\ (lastOp'.op = "addKnowledge:record") =>
            /\ \E c \in 1..Len(calls) :
                 /\ calls[c].nodeId = lastOp'.id
                 /\ calls'[c].pc = "returned"
                 /\ calls'[c].result = lastOp'.id
            /\ HasNode(nodes', lastOp'.id)
            /\ nodes' = nodes
            /\ edges' = edges
            /\ Len(learningHistory') = Len(learningHistory) + 1
            /\ Last(learningHistory').totalNodes = Len(nodes')
            /\ Last(learningHistory').totalEdges = Len(edges')
       /\ (lastOp'.op \in ReinforceOps) =>
            /\ lastOp'.found
            /\ NodeAfter(lastOp'.id)
                 = reinforceNode(NodeOf(lastOp'.id), FeedbackOf(lastOp'.op))
            /\ NodeAfter(lastOp'.id).weight # NodeOf(lastOp'.id).weight]_vars

\* C9 witness: an addKnowledge call whose node was linked returned although
\* its save failed
C9_Witness ==
  /\ lastOp.op = "addKnowledge:record"
  /\ lastOp.saveFailed
  /\ HasNode(nodes, lastOp.id)
  /\ NodeOf(lastOp.id).connections # <<>>
  /\ \E c \in 1..Len(calls) : calls[c].result = lastOp.id

\* the slot's text does not decode: unparsable, or a field that is no list
DecodeFails(stored) ==
  \/ stored.kind = "garbage"
  \/ /\ stored.kind = "json"
     /\ \/ stored.nodes.kind = "bad"
        \/ stored.edges.kind = "bad"
        \/ stored.learningHistory.kind = "bad"

EmptyGraph(ns, es, history, malformed) ==
  ns = <<>> /\ es = <<>> /\ history = <<>> /\ ~malformed

\* C10: load is all-or-nothing.  When the slot does not decode,
\* loadFromStorage, run on the empty graph, leaves it empty: no nodes, no
\* edges, no history.
C10_LoadAllOrNothing ==
  [][(lastOp'.op = "initialize:load" /\ DecodeFails(slot)
        /\ EmptyGraph(nodes, edges, learningHistory, historyMalformed)) =>
       EmptyGraph(nodes', edges', learningHistory', historyMalformed')]_vars

\* C11: monotonic growth.  Once initialize has completed, no step of
\* addKnowledge, reinforceKnowledge, getInsights, findSimilarNodes or
\* getGraphData removes a node or an edge: every node stored before the
\* step is stored after it with the same id, type and content, and every
\* edge stored before the step is stored after it.
C11_MonotonicGrowth ==
  [][initPc = "done" =>
       /\ \A i \in 1..Len(nodes) :
            /\ HasNode(nodes', nodes[i].id)
            /\ NodeAfter(nodes[i].id).type = nodes[i].type
            /\ NodeAfter(nodes[i].id).content = nodes[i].content
       /\ \A k \in 1..Len(edges) : \E l \in 1..Len(edges') : edges'[l] = edges[k]]_vars

\* C11 witness: a linked pair of nodes, one of them reinforced, has been
\* through getInsights, getGraphData and findSimilarNodes
C11_Witness ==
  /\ Len(nodes) = 2
  /\ Len(edges) = 1
  /\ reinforcements > 0
  /\ returned.op = "findSimilarNodes"
  /\ Len(returned.value) = 2

\* the snapshots computed by the step just taken: the one updateMetrics
\* pushed, the one getInsights returned
ComputedSnapshots ==
  (IF lastOp.op = "addKnowledge:record" /\ ~lastOp.raised
   THEN {Last(learningHistory)} ELSE {})
    \cup (IF returned.op = "getInsights" THEN {returned.value.metrics} ELSE {})

RatioEq(x, y) == x.num * y.den = y.num * x.den

\* C12: count metrics.  Every computed snapshot has totalNodes equal to the
\* number of nodes, totalEdges equal to the number of edges, and
\* averageConnectivity equal to totalEdges / totalNodes, or to 0 when there
\* is no node.
C12_CountMetrics ==
  \A m \in ComputedSnapshots :
    /\ m.totalNodes = Len(nodes)
    /\ m.totalEdges = Len(edges)
    /\ m.averageConnectivity.den > 0
    /\ IF Len(nodes) = 0
       THEN m.averageConnectivity.num = 0
       ELSE RatioEq(m.averageConnectivity, [num |-> Len(edges), den |-> Len(nodes)])

\* C12 witness: two concept nodes joined by one edge give 2, 1 and 0.5
C12_Witness ==
  /\ returned.op = "getInsights"
  /\ Len(nodes) = 2
  /\ \A i \in 1..2 : nodes[i].type = "concept"
  /\ Len(edges) = 1
  /\ returned.value.metrics.totalNodes = 2
  /\ returned.value.metrics.totalEdges = 1
  /\ RatioEq(returned.value.metrics.averageConnectivity, [num |-> 1, den |-> 2])

\* C13: confidenceScore of a computed snapshot is the mean over the nodes of
\* metadata.confidence, a missing confidence counting for 0.5; it is 0.5
\* when there is no node.
C13_ConfidenceScore ==
  LET RECURSIVE SumFrom(_)
      \* the sum, in tenths, of the confidences of nodes i.., a node without
      \* a confidence counting for 0.5
      SumFrom(i) ==
        IF i > Len(nodes) THEN 0
        ELSE (IF nodes[i].confidence = NoConfidence THEN 5 ELSE nodes[i].confidence)
               + SumFrom(i + 1)
  IN \A m \in ComputedSnapshots :
       IF Len(nodes) = 0
       THEN RatioEq(m.confidenceScore, [num |-> 1, den |-> 2])
       ELSE RatioEq(m.confidenceScore, [num |-> SumFrom(1), den |-> 10 * Len(nodes)])

\* C14: knowledgeDomains of a computed snapshot holds exactly the domains
\* present on nodes, each once; a node without a domain adds nothing.
C14_KnowledgeDomains ==
  \A m \in ComputedSnapshots :
    /\ Range(m.knowledgeDomains)
         = {nodes[i].domain : i \in {j \in 1..Len(nodes) : nodes[j].domain # NoDomain}}
    /\ NoDuplicates(m.knowledgeDomains)

\* C16: getInsights returns the latest recorded snapshot.  When the history
\* is not empty and no addKnowledge call is in flight, the metrics returned
\* equal the last entry of the history in every field.
C16_InsightsLatestSnapshot ==
  (/\ returned.op = "getInsights"
   /\ learningHistory # <<>>
   /\ \A c \in 1..Len(calls) : ~InFlight(c)) =>
    LET m == returned.value.metrics
        h == Last(learningHistory)
    IN /\ m.totalNodes = h.totalNodes
       /\ m.totalEdges = h.totalEdges
       /\ RatioEq(m.averageConnectivity, h.averageConnectivity)
       /\ m.knowledgeDomains = h.knowledgeDomains
       /\ RatioEq(m.growthRate, h.growthRate)
       /\ RatioEq(m.confidenceScore, h.confidenceScore)

\* C20: the relationship of an edge depends only on the unordered pair of
\* its endpoints' types: similar_to for one type, contains for document and
\* concept, relates_to for concept and entity, whichever node came first,
\* and connected_to otherwise.
C20_RelationshipUnordered ==
  LET PairLabel(t, u) ==
        IF t = u THEN "similar_to"
        ELSE IF {t, u} = {"document", "concept"} THEN "contains"
        ELSE IF {t, u} = {"concept", "entity"} THEN "relates_to"
        ELSE "connected_to"
  IN \A k \in 1..Len(edges) :
       (HasNode(nodes, edges[k].source) /\ HasNode(nodes, edges[k].target)) =>
         edges[k].relationship
           = PairLabel(NodeOf(edges[k].source).type, NodeOf(edges[k].target).type)

\* C15: growthRate of a computed snapshot is (totalNodes - p) / max(1, p),
\* p being totalNodes of the last snapshot of the history, and 0 when the
\* history is empty.  In a run of sequential inserts from the empty graph
\* the k-th recorded snapshot has totalNodes = k and growthRate 0 for k = 1,
\* 1 / (k - 1) for k >= 2.
C15_GrowthRate ==
  /\ \A k \in 1..Len(recorded) :
       /\ recorded[k].totalNodes = k
       /\ recorded[k].growthRate.den > 0
       /\ IF k = 1
          THEN recorded[k].growthRate.num = 0
          ELSE /\ RatioEq(recorded[k].growthRate, [num |-> 1, den |-> k - 1])
               /\ RatioEq(recorded[k].growthRate,
                          [num |-> recorded[k].totalNodes - recorded[k - 1].totalNodes,
                           den |-> Max2(1, recorded[k - 1].totalNodes)])
  /\ returned.op = "getInsights" =>
       LET g == returned.value.metrics.growthRate
       IN /\ g.den > 0
          /\ IF learningHistory = <<>>
             THEN g.num = 0
             ELSE RatioEq(g, [num |-> Len(nodes) - Last(learningHistory).totalNodes,
                              den |-> Max2(1, Last(learningHistory).totalNodes)])

\* C15 witness: the snapshot pushed by the insert after the 101st grew by
\* 1/101, the history being full
C15_Witness ==
  /\ Len(recorded) = HistoryCap + 2
  /\ lastOp.op = "addKnowledge:record"
  /\ Last(learningHistory).totalNodes = HistoryCap + 2
  /\ RatioEq(Last(learningHistory).growthRate, [num |-> 1, den |-> HistoryCap + 1])

\* C17: topConcepts.  getInsights returns min(10, number of nodes) stored
\* nodes, in non-increasing order of weight, nodes of one weight in
\* insertion order; no node left out is heavier than a node returned.
C17_TopConcepts ==
  returned.op = "getInsights" =>
    LET top == returned.value.topConcepts
        topIds == {top[k].id : k \in 1..Len(top)}
    IN /\ Len(top) = (IF Len(nodes) < 10 THEN Len(nodes) ELSE 10)
       /\ \A k \in 1..Len(top) : HasNode(nodes, top[k].id) /\ top[k] = NodeOf(top[k].id)
       /\ \A k, l \in 1..Len(top) :
            k < l =>
              /\ top[k].id # top[l].id
              /\ top[k].weight >= top[l].weight
              /\ top[k].weight = top[l].weight
                   => IndexOfNode(nodes, top[k].id) < IndexOfNode(nodes, top[l].id)
       /\ \A i \in 1..Len(nodes), k \in 1..Len(top) :
            nodes[i].id \notin topIds => nodes[i].weight <= top[k].weight

\* C17 witness: of eleven nodes, one reinforced upwards comes first though
\* inserted later, the unreinforced ones follow in insertion order, and one
\* reinforced downwards is left out
C17_Witness ==
  /\ returned.op = "getInsights"
  /\ Len(nodes) = 11
  /\ Len(returned.value.topConcepts) = 10
  /\ returned.value.topConcepts[1].weight > InitialWeight
  /\ returned.value.topConcepts[1].id > 1
  /\ returned.value.topConcepts[2].id = 1
  /\ \E i \in 1..Len(nodes) :
       /\ nodes[i].weight < InitialWeight
       /\ \A k \in 1..10 : returned.value.topConcepts[k].id # nodes[i].id

\* C18: isolated-node gap.  knowledgeGaps holds an isolated-concepts
\* message iff some node has an empty connections list, and the count of
\* the message is the number of such nodes.
C18_IsolatedGap ==
  returned.op = "getInsights" =>
    LET gaps == returned.value.knowledgeGaps
        messages == {k \in 1..Len(gaps) : gaps[k].kind = "isolated"}
        isolated == {i \in 1..Len(nodes) : nodes[i].connections = <<>>}
    IN /\ (messages # {}) <=> (isolated # {})
       /\ Cardinality(messages) <= 1
       /\ \A k \in messages : gaps[k].count = Cardinality(isolated)

\* C18 witness: a graph of ten nodes, one of them isolated, reported as 1
C18_Witness ==
  /\ returned.op = "getInsights"
  /\ Len(nodes) = 10
  /\ Cardinality({i \in 1..Len(nodes) : nodes[i].connections = <<>>}) = 1
  /\ \E k \in 1..Len(returned.value.knowledgeGaps) :
       returned.value.knowledgeGaps[k] = IsolatedGap(1)

\* C19: underrepresented-domain gap.  A domain (a missing domain counting
\* as "unknown") is listed in the "Need more knowledge in" message iff its
\* node count is strictly below max(1, 0.1 x totalNodes); the message is
\* there iff some domain is listed; a graph of 10 nodes or fewer never has
\* the message.
C19_DomainGap ==
  returned.op = "getInsights" =>
    LET gaps == returned.value.knowledgeGaps
        messages == {k \in 1..Len(gaps) : gaps[k].kind = "underrepresented"}
        domainOf(i) == IF nodes[i].domain = NoDomain THEN "unknown" ELSE nodes[i].domain
        count(d) == Cardinality({i \in 1..Len(nodes) : domainOf(i) = d})
        \* count(d) < max(1, n / 10), times 10
        expected == {d \in {domainOf(i) : i \in 1..Len(nodes)} :
                       10 * count(d) < Max2(10, Len(nodes))}
    IN /\ (messages # {}) <=> (expected # {})
       /\ Cardinality(messages) <= 1
       /\ \A k \in messages : Range(gaps[k].domains) = expected
       /\ Len(nodes) <= 10 => messages = {}

\* C19 witness: twelve nodes, one document and one note without a domain
\* among ten research results: both domains are listed, research is not
C19_Witness ==
  /\ returned.op = "getInsights"
  /\ Len(nodes) = 12
  /\ \E k \in 1..Len(returned.value.knowledgeGaps) :
       /\ returned.value.knowledgeGaps[k].kind = "underrepresented"
       /\ Range(returned.value.knowledgeGaps[k].domains) = {"document", "unknown"}

\* C21: a node created by addKnowledge has weight 1.0, confidence equal to
\* the caller's override if given and 0.8 otherwise, and domain equal to the
\* caller's override if given and otherwise the first domain in the order
\* ai, science, technology, business whose keyword list has a
\* case-insensitive substring match in the content, or general when none
\* matches.
C21_NewNodeDefaults ==
  [][lastOp'.op = "addKnowledge:insert" =>
       LET call == calls[CHOOSE c \in 1..Len(calls) : calls[c].nodeId = lastOp'.id]
           node == NodeAfter(lastOp'.id)
           text == call.input.content.text
           given == call.input.metadata
           matchAt(keyword, start) ==
             \A i \in 1..Len(keyword) :
               toLowerCase(text[start + i]) = toLowerCase(keyword[i])
           matches(domain) ==
             \E keyword \in Keywords(domain) :
               \E start \in 0..(Len(text) - Len(keyword)) : matchAt(keyword, start)
       IN /\ ~HasNode(nodes, lastOp'.id)
          /\ node.weight = 10
          /\ node.confidence = (IF given.hasConfidence THEN given.confidence ELSE 8)
          /\ node.domain =
               (IF given.hasDomain THEN given.domain
                ELSE IF matches("ai") THEN "ai"
                ELSE IF matches("science") THEN "science"
                ELSE IF matches("technology") THEN "technology"
                ELSE IF matches("business") THEN "business"
                ELSE "general")]_vars

\* C21 witness: a text with STUDY and Tech in it, stored without overrides,
\* is in the domain science with confidence 0.8
C21_Witness ==
  /\ lastOp.op = "addKnowledge:insert"
  /\ NodeOf(lastOp.id).content
       = <<"S", "T", "U", "D", "Y", " ", "T", "e", "c", "h">>
  /\ calls[1].input.metadata = NoMetadata
  /\ NodeOf(lastOp.id).domain = "science"
  /\ NodeOf(lastOp.id).confidence = DefaultConfidence
  /\ NodeOf(lastOp.id).weight = InitialWeight

\* C22: the insight queries are read-only and repeatable.  getInsights and
\* getGraphData leave the nodes, the edges, the metrics history and the slot
\* as they were (getInsights pushes no snapshot), and a getInsights call
\* that follows a getInsights call with no step between them returns the
\* same averageConnectivity, confidenceScore and knowledgeDomains.
C22_QueriesReadOnly ==
  [][/\ lastOp'.op \in {"getInsights", "getGraphData"} =>
          UNCHANGED <<nodes, edges, learningHistory, historyMalformed, slot>>
     /\ (returned.op = "getInsights" /\ lastOp'.op = "getInsights") =>
          /\ returned'.op = "getInsights"
          /\ returned'.value.metrics.averageConnectivity
               = returned.value.metrics.averageConnectivity
          /\ returned'.value.metrics.confidenceScore
               = returned.value.metrics.confidenceScore
          /\ returned'.value.metrics.knowledgeDomains
               = returned.value.metrics.knowledgeDomains]_vars

\* C22 witness: getInsights has returned on a graph of two linked nodes, one
\* of them reinforced, with two snapshots in the history
C22_Witness ==
  /\ lastOp.op = "getInsights"
  /\ returned.op = "getInsights"
  /\ Len(nodes) = 2
  /\ Len(edges) = 1
  /\ reinforcements > 0
  /\ Len(learningHistory) = 2
  /\ returned.value.metrics.knowledgeDomains # <<>>

\* C23: inserts do not interleave.  When two addKnowledge calls are in
\* flight at once, the one that has stored its node records and saves
\* before the other stores its own, so that no two calls are between their
\* insertion and their snapshot together, and, from the empty graph, the
\* k-th recorded snapshot has totalNodes = k.
C23_InsertsDoNotInterleave ==
  /\ Cardinality({c \in 1..Len(calls) : calls[c].pc = "linked"}) <= 1
  /\ \A k \in 1..Len(recorded) : recorded[k].totalNodes = k

\* C24: knowledge persisted by an earlier session survives startup.  The
\* process starting on the slot an earlier session saved, however
\* initialize is interleaved with addKnowledge and reinforceKnowledge calls,
\* once initialize has completed and no call is in flight the graph in
\* memory and the slot both hold every node and every edge the slot held at
\* the start.
C24_PersistedSurvivesStartup ==
  (initPc = "done" /\ \A c \in 1..Len(calls) : ~InFlight(c)) =>
    LET kept == FieldOrEmpty(slot.nodes)
        keptEdges == FieldOrEmpty(slot.edges)
    IN /\ \A i \in 1..Len(PrevGraph.nodes) :
            /\ HasNode(nodes, PrevGraph.nodes[i].id)
            /\ HasNode(kept, PrevGraph.nodes[i].id)
       /\ \A k \in 1..Len(PrevGraph.edges) :
            /\ \E l \in 1..Len(edges) : edges[l].id = PrevGraph.edges[k].id
            /\ \E l \in 1..Len(keptEdges) : keptEdges[l].id = PrevGraph.edges[k].id

\* C25: a failure of the embedding provider at startup does not halt the
\* engine.  When initialize ends with the embedder not loaded, it has not
\* raised, and it has loaded the graph of the slot: on the slot an earlier
\* session saved, the nodes, the edges and the history are the saved ones.
C25_InitializeSurvivesEmbedderFailure ==
  [][(initPc = "loading" /\ initPc' # "loading" /\ embedder' = "null") =>
       /\ ~lastOp'.raised
       /\ initPc' = "done"
       /\ (slot = PrevSlot) =>
            /\ nodes' = PrevGraph.nodes
            /\ edges' = PrevGraph.edges
            /\ learningHistory' = PrevHistory]_vars

\* C26: referential integrity of the store against holders of returned
\* objects.  In every reachable state, the consumer of getGraphData having
\* processed what it was given or not, source and target of every stored
\* edge are ids of stored nodes, and the stored nodes carry no field of the
\* consumer.
C26_StoreIntegrity ==
  /\ \A k \in 1..Len(edges) :
       /\ ~edges[k].byReference
       /\ HasNode(nodes, edges[k].source)
       /\ HasNode(nodes, edges[k].target)
  /\ \A i \in 1..Len(nodes) : ~nodes[i].placed

\* C27: step ordering inside one addKnowledge.  The node is stored and
\* linked in one step that records and saves nothing; the later step of the
\* same call changes no node and no edge, pushes exactly one snapshot, which
\* counts the node and every edge the insert created, and then saves: the
\* slot holds the new node, its edges and that snapshot.
C27_StepOrder ==
  [][/\ lastOp'.op = "addKnowledge:insert" =>
          /\ ~HasNode(nodes, lastOp'.id)
          /\ HasNode(nodes', lastOp'.id)
          /\ \A k \in 1..Len(edges') :
               k > Len(edges) => edges'[k].source = lastOp'.id
          /\ UNCHANGED <<learningHistory, recorded, slot>>
     /\ lastOp'.op = "addKnowledge:record" =>
          LET created == {k \in 1..Len(edges) : edges[k].source = lastOp'.id}
              snapshot == Last(learningHistory')
          IN /\ HasNode(nodes, lastOp'.id)
             /\ UNCHANGED <<nodes, edges>>
             /\ Len(recorded') = Len(recorded) + 1
             /\ learningHistory' = Append(learningHistory, snapshot)
             /\ snapshot = Last(recorded')
             /\ snapshot.totalNodes = Len(nodes)
             /\ snapshot.totalEdges = Len(edges)
             /\ snapshot.totalEdges >= Cardinality(created)
             /\ ~lastOp'.saveFailed =>
                  /\ slot'.kind = "json"
                  /\ Len(slot'.nodes.val) = Len(nodes)
                  /\ \A i \in 1..Len(nodes) : parseNode(slot'.nodes.val[i]) = nodes[i]
                  /\ HasNode(slot'.nodes.val, lastOp'.id)
                  /\ slot'.edges = ListField(edges)
                  /\ \A k \in created : edges[k] \in Range(slot'.edges.val)
                  /\ slot'.learningHistory = ListField(learningHistory')
                  /\ Last(slot'.learningHistory.val) = snapshot]_vars

\* C27 witness: a call whose insert created two edges has recorded and
\* saved, after a call that was started later than it
C27_Witness ==
  /\ lastOp.op = "addKnowledge:record"
  /\ Cardinality({k \in 1..Len(edges) : edges[k].source = lastOp.id}) = 2
  /\ Last(learningHistory).totalEdges = Len(edges)
  /\ slot = Serialize(nodes, edges, learningHistory, FALSE)
  /\ lastOp.id < Len(calls)
  /\ \A c \in 1..Len(calls) : Completed(c)

\* C28: the persisted state tracks the memory.  Saves succeeding, whenever
\* no addKnowledge call is in flight the slot holds exactly the nodes, the
\* edges and the metrics history of the engine (nothing at all while
\* nothing was ever stored), and loading the slot into a fresh engine gives
\* the same nodes, edges and history.
C28_SlotTracksMemory ==
  (\A c \in 1..Len(calls) : ~InFlight(c)) =>
    /\ IF slot.kind = "absent"
       THEN nodes = <<>> /\ edges = <<>> /\ learningHistory = <<>>
       ELSE /\ slot.kind = "json"
            /\ slot.nodes.kind = "list"
            /\ Len(slot.nodes.val) = Len(nodes)
            /\ \A i \in 1..Len(nodes) :
                 \A key \in DOMAIN nodes[i] :
                   IF IsUndefined(nodes[i], key)
                   THEN key \notin DOMAIN slot.nodes.val[i]
                   ELSE /\ key \in DOMAIN slot.nodes.val[i]
                        /\ slot.nodes.val[i][key] = nodes[i][key]
            /\ slot.edges = [kind |-> "list", val |-> edges]
            /\ slot.learningHistory = [kind |-> "list", val |-> learningHistory]
    /\ LET fresh == loadFromStorage(slot, <<>>, <<>>, <<>>, FALSE)
       IN /\ fresh.nodes = nodes
          /\ fresh.edges = edges
          /\ fresh.learningHistory = learningHistory
          /\ ~fresh.historyMalformed

\* C28 witness: two linked nodes, one stored with confidence and domain
\* undefined, one reinforced last, and the slot holding them
C28_Witness ==
  /\ lastOp.op \in ReinforceOps
  /\ lastOp.found
  /\ \A c \in 1..Len(calls) : Completed(c)
  /\ Len(nodes) = 2
  /\ Len(edges) = 1
  /\ \E i \in 1..2 : nodes[i].confidence = NoConfidence /\ nodes[i].domain = NoDomain
  /\ slot.kind = "json"
  /\ Len(slot.nodes.val) = 2

\* C29: reinforcement frame.  The weight and the confidence of a stored
\* node change only in a reinforceKnowledge call on that node, never in a
\* step of addKnowledge, of its linking, or of a query; and such a call
\* changes nothing else: no other node, no connections list, no other field
\* of its node, no edge, and no entry of the metrics history.
C29_ReinforcementFrame ==
  [][/\ \A i \in 1..Len(nodes) :
          /\ HasNode(nodes', nodes[i].id)
          /\ (\/ NodeAfter(nodes[i].id).weight # nodes[i].weight
              \/ NodeAfter(nodes[i].id).confidence # nodes[i].confidence) =>
               /\ lastOp'.op \in ReinforceOps
               /\ lastOp'.found
               /\ lastOp'.id = nodes[i].id
     /\ lastOp'.op \in ReinforceOps =>
          /\ UNCHANGED <<edges, learningHistory, historyMalformed, recorded>>
          /\ Len(nodes') = Len(nodes)
          /\ \A i \in 1..Len(nodes) :
               IF nodes[i].id = lastOp'.id
               THEN nodes'[i] = [nodes[i] EXCEPT !.weight = nodes'[i].weight,
                                                 !.confidence = nodes'[i].confidence]
               ELSE nodes'[i] = nodes[i]]_vars

\* C29 witness: of two linked nodes one has been reinforced, weight and
\* confidence, and the other is as it was stored
C29_Witness ==
  /\ lastOp.op = "reinforceKnowledge:negative"
  /\ lastOp.found
  /\ Len(nodes) = 2
  /\ Len(edges) = 1
  /\ NodeOf(lastOp.id).weight = InitialWeight - 1
  /\ NodeOf(lastOp.id).confidence = DefaultConfidence - 1
  /\ NodeOf(lastOp.id).connections # <<>>
  /\ \E i \in 1..2 : nodes[i].id # lastOp.id /\ nodes[i].weight = InitialWeight

\* C30: zero-magnitude vectors.  The cosine similarity of two embeddings of
\* which one has zero magnitude is the number 0, not NaN; after every step
\* no edge joins a node of zero magnitude, no edge weight is NaN, and
\* findSimilarNodes returns the nodes in non-increasing order of their
\* similarity to the query, a similarity with a zero vector being 0.
C30_ZeroMagnitudeIsZero ==
  [][LET IsZeroVector(v) == \A d \in 1..Len(v) : v[d] = 0
         \* the similarity, a zero vector giving 0
         Claimed(a, b) ==
           IF IsZeroVector(a) \/ IsZeroVector(b) THEN [dot |-> 0, den2 |-> 1]
           ELSE cosineSimilarity(a, b)
     IN /\ \A i, j \in 1..Len(nodes') :
             (i # j /\ IsZeroVector(nodes'[i].embedding)) =>
               /\ ~IsNaN(cosineSimilarity(nodes'[i].embedding, nodes'[j].embedding))
               /\ cosineSimilarity(nodes'[i].embedding, nodes'[j].embedding).dot = 0
               /\ \A k \in 1..Len(edges') :
                    {edges'[k].source, edges'[k].target} # {nodes'[i].id, nodes'[j].id}
        /\ \A k \in 1..Len(edges') : ~IsNaN(edges'[k].weight)
        /\ lastOp'.op = "findSimilarNodes:return" =>
             \E q \in 1..Len(find) :
               \A k, l \in 1..Len(returned'.value) :
                 k < l =>
                   ~SimilarityGreater(Claimed(find[q].vec, returned'.value[l].embedding),
                                      Claimed(find[q].vec, returned'.value[k].embedding))]_vars

====
